---- MODULE Spec2Model ----
(***************************************************************************)
(* The per-symbol synchronisation engine of collector.py: minute_loop      *)
(* sweeps the configured symbols; each pass runs batch_fill_history (gap   *)
(* fill from the stored tail up to "now") and then the tail re-fetch of    *)
(* the last N_MINUTES candles, inserting with INSERT OR IGNORE.            *)
(*                                                                         *)
(* Time is in milliseconds, as in the code.  The epoch is shifted so that  *)
(* the historical floor (2017-08-17 04:00) is the key 120000: the keys 0   *)
(* and 60000 lie before the floor.  A kline is <<open_time, payload>>: the *)
(* eleven pass-through columns are one opaque payload value.               *)
(***************************************************************************)
EXTENDS Integers, Sequences, FiniteSets, Bags, TLC

\* ------------------------------------------------------------- bounds
\* Last minute of the modelled time line.
MaxMinute == 5
\* collector.py:34 sets 1000; scaled down so that a gap fill needs several
\* batches and stored keys fall outside the recent-key window.
N_MINUTES == 2
\* How many of the symbols have a source or a store that can misbehave.
MaxUnreliable == 1
\* How many times the process is stopped and started again.
MaxRestarts == 2
\* Last second, counted from the floor, at which a sweep ends before a sleep
\* whose length is computed.
MaxSecond == 119

\* ---------------------------------------------------------- constants
IntervalMs == 60000
SYMBOLS == <<"BTCUSDT", "ETHUSDT">>
HistoricalFloor == 2 * IntervalMs
\* The wall clock is read in whole seconds; half a minute is the step kept.
TickMs == IntervalMs \div 2
None == 0 - 1

Symbols == {SYMBOLS[j] : j \in 1..Len(SYMBOLS)}
Minutes == {m * IntervalMs : m \in 0..MaxMinute}
\* The open times a source can serve: the candles from the floor on, and the
\* key 0 (a record before the floor).
Keys == {0} \cup {k \in Minutes : k >= HistoricalFloor}
\* The wall clock runs from one minute before the floor.
ClockVals == {c \in {t * TickMs : t \in 0..(2 * MaxMinute + 1)} : c >= HistoricalFloor - IntervalMs}
Payloads == {0, 1}
Kinds == {"history", "flaky", "any"}
\* The candles an "any" source also serves with payload 1.
Revisable == {HistoricalFloor}
AnyKlines == (Keys \X {0}) \cup (Revisable \X {1})

Min(a, b) == IF a < b THEN a ELSE b
Max(a, b) == IF a > b THEN a ELSE b
SetMax(S) == CHOOSE x \in S : \A y \in S : y <= x
SetMin(S) == CHOOSE x \in S : \A y \in S : x <= y

\* The elements of a set of integers in ascending order.
Ascending(S) ==
    [j \in 1..Cardinality(S) |-> CHOOSE k \in S : Cardinality({x \in S : x < k}) = j - 1]

\* "for kline in reversed(data)": the last n records of a batch.
LastRecords(seq, n) == SubSeq(seq, Len(seq) - n + 1, Len(seq))

\* "for kline in data", stopped after n records.
Prefix(seq, n) == SubSeq(seq, 1, n)
SeqsUpTo(S, n) == UNION {[1..m -> S] : m \in 0..n}

\* -------------------------------------------------------------- store
\* A table is a bag of klines (rows): kline -> number of copies.
OpenTimes(table) == {r[1] : r \in DOMAIN table}
Copies(table, rows) == BagCardinality([r \in rows |-> table[r]])
RowCount(table, k) == Copies(table, {r \in DOMAIN table : r[1] = k})
RowsAbove(table, k) == Copies(table, {r \in DOMAIN table : r[1] > k})

\* The unique constraint on open_time of the kline table.
UniqueConflict(table, kline) == kline[1] \in OpenTimes(table)

\* SELECT MAX(open_time); "row[0] if row and row[0] else None".
get_last_open_time(table) ==
    LET ks == OpenTimes(table) IN
    IF ks = {} THEN None
    ELSE IF SetMax(ks) = 0 THEN None ELSE SetMax(ks)

\* Plain INSERT into a table without the constraint: always adds a row.
insert_kline_plain(table, kline) == table (+) SetToBag({kline})

\* INSERT OR REPLACE: a conflicting row is overwritten.
insert_kline_replace(table, kline) ==
    [r \in {x \in DOMAIN table : x[1] # kline[1]} |-> table[r]] (+) SetToBag({kline})

\* INSERT OR IGNORE: a row that conflicts is dropped silently.
insert_kline(table, kline) ==
    IF UniqueConflict(table, kline) THEN table ELSE table (+) SetToBag({kline})

RECURSIVE InsertAll(_, _)
InsertAll(table, seq) ==
    IF seq = <<>> THEN table
    ELSE InsertAll(insert_kline(table, Head(seq)), Tail(seq))

\* SELECT open_time ... ORDER BY open_time DESC LIMIT n, as a set.
get_last_n_open_times(table, n) == {k \in OpenTimes(table) : RowsAbove(table, k) < n}

\* ------------------------------------------------------------- source
\* The synthetic history: one candle per minute from the floor to the
\* candle that is open at time t, each with payload 0.
HistKeys(t) == {k \in Keys : HistoricalFloor <= k /\ k <= t}
HistFetch(start, limit, t) ==
    LET all == Ascending({k \in HistKeys(t) : k >= start}) IN
    [j \in 1..Min(limit, Len(all)) |-> <<all[j], 0>>]
HistTail(n, t) ==
    LET all == Ascending(HistKeys(t))
        m == Min(n, Len(all))
    IN [j \in 1..m |-> <<all[Len(all) - m + j], 0>>]

VARIABLES
    store,      \* symbol -> table (db/<symbol>.sqlite)
    kind,       \* symbol -> how its source and store behave (fixed)
    clock,      \* wall clock, ms
    pc,         \* where minute_loop is: "pass", "fill", "tail", "next", "sleep"
    i,          \* index in SYMBOLS of the symbol of the current pass
    start_ms,   \* batch_fill_history's cursor
    now_ms,     \* batch_fill_history's now_ms
    fill_err,   \* what batch_fill_history's except clause logged in this pass
    outcome,    \* symbol -> "pending", "running", "ok", "error" in this sweep
    new_count,  \* minute_loop's new_count
    klines,     \* minute_loop's klines: the batch of a tail phase that completed
    store0,     \* the current symbol's stored keys when its pass started
    caught_up,  \* the gap fill of this pass left its loop at line 89 (empty batch)
    restarts    \* how many times the process was stopped and started again

vars == <<store, kind, clock, pc, i, start_ms, now_ms, fill_err, outcome,
          new_count, klines, store0, caught_up, restarts>>

symbol == SYMBOLS[i]
Unreliable(s) == kind[s] # "history"

\* What a source of each kind may answer where the history answers `hist`
\* and at most `limit` records were asked for:
\*   "history"  the history itself, and no request or store operation fails;
\*   "flaky"    the history itself, but requests and store operations may fail;
\*   "any"      any sequence of at most `limit` candles of AnyKlines, in any
\*              order, stale or repeated ones included, and operations may fail.
Answers(s, hist, limit) ==
    IF kind[s] = "any" THEN SeqsUpTo(AnyKlines, limit) ELSE {hist}

\* What a "short" source may answer to a gap-fill request: nothing, or any
\* 1..limit candles at or after `start`, in ascending order.
ShortBatches(start, limit) ==
    {[j \in 1..Cardinality(S) |-> <<Ascending(S)[j], 0>>] :
        S \in {X \in SUBSET {k \in Keys : k >= start} : Cardinality(X) <= limit}}

\* requests.get(...).json() of the gap fill, when it succeeds.
FetchFrom(s, start, limit) ==
    IF kind[s] = "short" THEN ShortBatches(start, limit)
    ELSE Answers(s, HistFetch(start, limit, clock), limit)
\* fetch_binance_n_klines, when it succeeds.
fetch_binance_n_klines(s, n) == Answers(s, HistTail(n, clock), n)

BatchLimit(now, start) == Min(N_MINUTES, (now - start) \div IntervalMs + 1)
\* "start_ms = data[-1][0]": the last candle is asked for again.
NextStartSameCandle(data) == data[Len(data)][1]

NextStart(data) == data[Len(data)][1] + IntervalMs

Init ==
    /\ store = [s \in Symbols |-> EmptyBag]
    /\ kind \in {k \in [Symbols -> Kinds] :
                   Cardinality({s \in Symbols : k[s] # "history"}) <= MaxUnreliable}
    /\ clock \in ClockVals
    /\ pc = "pass"
    /\ i = 1
    /\ start_ms = 0
    /\ now_ms = 0
    /\ fill_err = "none"
    /\ outcome = [s \in Symbols |-> "pending"]
    /\ new_count = 0
    /\ klines = <<>>
    /\ store0 = {}
    /\ caught_up = FALSE
    /\ restarts = 0

\* Lines 67-74: the cursor from the stored tail (minute_loop passes no
\* earliest_time).
StartCursor(table) ==
    LET last_time == get_last_open_time(table) IN
    IF last_time = None THEN HistoricalFloor ELSE last_time + IntervalMs

\* batch_fill_history, lines 67-75.
BatchFillStart ==
    /\ pc = "pass"
    /\ start_ms' = StartCursor(store[symbol])
    /\ now_ms' = clock
    /\ pc' = "fill"
    /\ fill_err' = "none"
    /\ outcome' = [outcome EXCEPT ![symbol] = "running"]
    /\ store0' = OpenTimes(store[symbol])
    /\ new_count' = 0
    /\ klines' = <<>>
    /\ UNCHANGED <<store, kind, clock, i>>
    /\ UNCHANGED <<caught_up, restarts>>

\* The try placed around the for loop: the first failure ends the sweep.
BatchFillStartFailsEndsSweep ==
    /\ pc = "pass"
    /\ Unreliable(symbol)
    /\ pc' = "sleep"
    /\ i' = 1
    /\ fill_err' = "none"
    /\ outcome' = [outcome EXCEPT ![symbol] = "error"]
    /\ store0' = {}
    /\ new_count' = 0
    /\ klines' = <<>>
    /\ UNCHANGED <<store, kind, clock, start_ms, now_ms>>
    /\ UNCHANGED <<caught_up, restarts>>

\* get_last_open_time raises (line 67 is outside the try of the loop): the
\* exception reaches minute_loop's except clause.
BatchFillStartFails ==
    /\ pc = "pass"
    /\ Unreliable(symbol)
    /\ pc' = "next"
    /\ fill_err' = "none"
    /\ outcome' = [outcome EXCEPT ![symbol] = "error"]
    /\ store0' = OpenTimes(store[symbol])
    /\ new_count' = 0
    /\ klines' = <<>>
    /\ UNCHANGED <<store, kind, clock, i, start_ms, now_ms>>
    /\ UNCHANGED <<caught_up, restarts>>

\* db_path computed once, before the for loop: every gap fill writes the
\* first symbol's database.
BatchFillFetchSharedDb ==
    /\ pc = "fill"
    /\ start_ms < now_ms
    /\ \E data \in FetchFrom(symbol, start_ms, BatchLimit(now_ms, start_ms)) :
         IF data = <<>>
         THEN /\ pc' = "tail"
              /\ start_ms' = 0
              /\ now_ms' = 0
              /\ caught_up' = TRUE
              /\ UNCHANGED store
         ELSE /\ store' = [store EXCEPT ![SYMBOLS[1]] = InsertAll(@, data)]
              /\ start_ms' = NextStart(data)
              /\ pc' = "fill"
              /\ UNCHANGED <<now_ms, caught_up>>
    /\ UNCHANGED <<kind, clock, i, fill_err, outcome, new_count, klines, store0, restarts>>

\* "if not data: raise": an empty batch is treated as a failed request.
BatchFillFetchEmptyIsError ==
    /\ pc = "fill"
    /\ start_ms < now_ms
    /\ \E data \in FetchFrom(symbol, start_ms, BatchLimit(now_ms, start_ms)) :
         IF data = <<>>
         THEN /\ pc' = "tail"
              /\ start_ms' = 0
              /\ now_ms' = 0
              /\ caught_up' = TRUE
              /\ fill_err' = "source"
              /\ UNCHANGED store
         ELSE /\ store' = [store EXCEPT ![symbol] = InsertAll(@, data)]
              /\ start_ms' = NextStart(data)
              /\ pc' = "fill"
              /\ UNCHANGED <<now_ms, caught_up, fill_err>>
    /\ UNCHANGED <<kind, clock, i, outcome, new_count, klines, store0, restarts>>

\* One iteration of the while loop, lines 76-94, with no exception.
BatchFillFetch ==
    /\ pc = "fill"
    /\ start_ms < now_ms
    /\ \E data \in FetchFrom(symbol, start_ms, BatchLimit(now_ms, start_ms)) :
         IF data = <<>>
         THEN /\ pc' = "tail"
              /\ start_ms' = 0
              /\ now_ms' = 0
              /\ caught_up' = TRUE
              /\ UNCHANGED store
         ELSE /\ store' = [store EXCEPT ![symbol] = InsertAll(@, data)]
              /\ start_ms' = NextStart(data)
              /\ pc' = "fill"
              /\ UNCHANGED <<now_ms, caught_up>>
    /\ UNCHANGED <<kind, clock, i, fill_err, outcome, new_count, klines, store0, restarts>>

\* requests.get / raise_for_status / json raise: caught at line 95, break.
BatchFillSourceFails ==
    /\ pc = "fill"
    /\ start_ms < now_ms
    /\ Unreliable(symbol)
    /\ fill_err' = "source"
    /\ pc' = "tail"
    /\ start_ms' = 0
    /\ now_ms' = 0
    /\ UNCHANGED <<store, kind, clock, i, outcome, new_count, klines, store0>>
    /\ UNCHANGED <<caught_up, restarts>>

\* insert_kline raises on the (n+1)-th record of the batch: the first n are
\* stored, the exception is caught at line 95, break.
BatchFillInsertFails ==
    /\ pc = "fill"
    /\ start_ms < now_ms
    /\ Unreliable(symbol)
    /\ \E data \in FetchFrom(symbol, start_ms, BatchLimit(now_ms, start_ms)) :
         /\ data # <<>>
         /\ \E n \in 0..(Len(data) - 1) :
              store' = [store EXCEPT ![symbol] = InsertAll(@, Prefix(data, n))]
    /\ fill_err' = "storage"
    /\ pc' = "tail"
    /\ start_ms' = 0
    /\ now_ms' = 0
    /\ UNCHANGED <<kind, clock, i, outcome, new_count, klines, store0>>
    /\ UNCHANGED <<caught_up, restarts>>

\* The while condition is false: batch_fill_history returns.
BatchFillDone ==
    /\ pc = "fill"
    /\ ~(start_ms < now_ms)
    /\ pc' = "tail"
    /\ start_ms' = 0
    /\ now_ms' = 0
    /\ UNCHANGED <<store, kind, clock, i, fill_err, outcome, new_count, klines, store0>>
    /\ UNCHANGED <<caught_up, restarts>>

\* The membership test inverted: "if kline[0] in db_minutes".
NotKnownInverted(db_minutes, seq) == SelectSeq(seq, LAMBDA kline : kline[1] \in db_minutes)

NotKnown(db_minutes, seq) == SelectSeq(seq, LAMBDA kline : kline[1] \notin db_minutes)

\* The n largest of a set of keys.
RecentOf(ks, n) == {k \in ks : Cardinality({x \in ks : x > k}) < n}

\* get_last_n_open_times called before batch_fill_history: db_minutes holds
\* the recent keys of the store as the pass found it.
TailSyncStaleRead ==
    /\ pc = "tail"
    /\ \E batch \in fetch_binance_n_klines(symbol, N_MINUTES) :
         LET db_minutes == RecentOf(store0, N_MINUTES)
             fresh == NotKnown(db_minutes, batch)
         IN /\ klines' = batch
            /\ store' = [store EXCEPT ![symbol] = InsertAll(@, fresh)]
            /\ new_count' = Len(fresh)
    /\ outcome' = [outcome EXCEPT ![symbol] = "ok"]
    /\ pc' = "next"
    /\ UNCHANGED <<kind, clock, i, start_ms, now_ms, fill_err, store0>>
    /\ UNCHANGED <<caught_up, restarts>>

\* minute_loop, lines 123-132, with no exception.
TailSync ==
    /\ pc = "tail"
    /\ \E batch \in fetch_binance_n_klines(symbol, N_MINUTES) :
         LET db_minutes == get_last_n_open_times(store[symbol], N_MINUTES)
             fresh == NotKnown(db_minutes, batch)
         IN /\ klines' = batch
            /\ store' = [store EXCEPT ![symbol] = InsertAll(@, fresh)]
            /\ new_count' = Len(fresh)
    /\ outcome' = [outcome EXCEPT ![symbol] = "ok"]
    /\ pc' = "next"
    /\ UNCHANGED <<kind, clock, i, start_ms, now_ms, fill_err, store0>>
    /\ UNCHANGED <<caught_up, restarts>>

\* No except clause around the pass: the exception ends the process.
TailFetchFailsUncaught ==
    /\ pc = "tail"
    /\ Unreliable(symbol)
    /\ outcome' = [outcome EXCEPT ![symbol] = "error"]
    /\ pc' = "exited"
    /\ UNCHANGED <<store, kind, clock, i, start_ms, now_ms, fill_err, new_count,
                   klines, store0>>
    /\ UNCHANGED <<caught_up, restarts>>

\* get_last_n_open_times or fetch_binance_n_klines raises: line 133.
TailFetchFails ==
    /\ pc = "tail"
    /\ Unreliable(symbol)
    /\ outcome' = [outcome EXCEPT ![symbol] = "error"]
    /\ pc' = "next"
    /\ UNCHANGED <<store, kind, clock, i, start_ms, now_ms, fill_err, new_count,
                   klines, store0>>
    /\ UNCHANGED <<caught_up, restarts>>

\* insert_kline raises on the (n+1)-th record to insert: line 133.
TailInsertFails ==
    /\ pc = "tail"
    /\ Unreliable(symbol)
    /\ \E batch \in fetch_binance_n_klines(symbol, N_MINUTES) :
         LET db_minutes == get_last_n_open_times(store[symbol], N_MINUTES)
             fresh == NotKnown(db_minutes, batch)
         IN /\ fresh # <<>>
            /\ klines' = <<>>
            /\ \E n \in 0..(Len(fresh) - 1) :
                 /\ store' = [store EXCEPT ![symbol] = InsertAll(@, Prefix(fresh, n))]
                 /\ new_count' = n
    /\ outcome' = [outcome EXCEPT ![symbol] = "error"]
    /\ pc' = "next"
    /\ UNCHANGED <<kind, clock, i, start_ms, now_ms, fill_err, store0>>
    /\ UNCHANGED <<caught_up, restarts>>

\* "for symbol in SYMBOLS[:-1]": the sweep ends before the last symbol.
NextSymbolSkipsLast ==
    /\ pc = "next"
    /\ IF i + 1 < Len(SYMBOLS)
       THEN /\ i' = i + 1
            /\ pc' = "pass"
       ELSE /\ i' = 1
            /\ pc' = "sleep"
    /\ fill_err' = "none"
    /\ new_count' = 0
    /\ klines' = <<>>
    /\ store0' = {}
    /\ caught_up' = FALSE
    /\ UNCHANGED <<store, kind, clock, start_ms, now_ms, outcome, restarts>>

\* The for loop of line 119 moves on, or the sweep ends.
NextSymbol ==
    /\ pc = "next"
    /\ IF i < Len(SYMBOLS)
       THEN /\ i' = i + 1
            /\ pc' = "pass"
       ELSE /\ i' = 1
            /\ pc' = "sleep"
    /\ fill_err' = "none"
    /\ new_count' = 0
    /\ klines' = <<>>
    /\ store0' = {}
    /\ UNCHANGED <<store, kind, clock, start_ms, now_ms, outcome>>
    /\ caught_up' = FALSE
    /\ UNCHANGED restarts

\* Lines 135-137: sleep, then the next sweep.  The clock is read once per
\* sweep here, so the time the sweep itself took passes in this step too:
\* the next sweep starts at any later time.
Sleep ==
    /\ pc = "sleep"
    /\ \E t \in ClockVals : t > clock /\ clock' = t
    /\ pc' = "pass"
    /\ i' = 1
    /\ outcome' = [s \in Symbols |-> "pending"]
    /\ UNCHANGED <<store, kind, start_ms, now_ms, fill_err, new_count, klines, store0>>
    /\ UNCHANGED <<caught_up, restarts>>

\* The process starts (lines 139-140): minute_loop begins a sweep with
\* nothing but the stores left of what was before.
ProcessStarts ==
    /\ restarts < MaxRestarts
    /\ restarts' = restarts + 1
    /\ \E t \in ClockVals : t >= clock /\ clock' = t
    /\ pc' = "pass"
    /\ i' = 1
    /\ start_ms' = 0
    /\ now_ms' = 0
    /\ fill_err' = "none"
    /\ outcome' = [s \in Symbols |-> "pending"]
    /\ new_count' = 0
    /\ klines' = <<>>
    /\ store0' = {}
    /\ caught_up' = FALSE
    /\ UNCHANGED kind

\* The process is stopped between two steps, anywhere in a sweep or in the
\* sleep, and started again.
Restart ==
    /\ ProcessStarts
    /\ UNCHANGED store

\* The process is stopped inside the insert loop of a gap-fill batch, after
\* n of its records were committed (each insert_kline is one transaction),
\* and started again.
RestartMidFill ==
    /\ pc = "fill"
    /\ start_ms < now_ms
    /\ \E data \in FetchFrom(symbol, start_ms, BatchLimit(now_ms, start_ms)) :
         \E n \in 1..(Len(data) - 1) :
            store' = [store EXCEPT ![symbol] = InsertAll(@, Prefix(data, n))]
    /\ ProcessStarts

\* Lines 135-137 to the second: the length of the sleep from the second at
\* which the sweep ended, and the sleep itself.
secs_until_next_minute(now_sec) == 60 - (now_sec % 60)
SleepSeconds(now_sec) == Max(2, secs_until_next_minute(now_sec))
SleepUntilNextMinute ==
    /\ pc = "sleep"
    /\ LET now_sec == clock \div 1000 IN
       clock' = clock + SleepSeconds(now_sec) * 1000
    /\ pc' = "pass"
    /\ i' = 1
    /\ outcome' = [s \in Symbols |-> "pending"]
    /\ UNCHANGED <<store, kind, start_ms, now_ms, fill_err, new_count, klines, store0>>
    /\ UNCHANGED <<caught_up, restarts>>

Next ==
    \/ BatchFillStart
    \/ BatchFillStartFails
    \/ BatchFillFetch
    \/ BatchFillSourceFails
    \/ BatchFillInsertFails
    \/ BatchFillDone
    \/ TailSync
    \/ TailFetchFails
    \/ TailInsertFails
    \/ NextSymbol
    \/ Sleep

Spec == Init /\ [][Next]_vars

\* The loop is one thread that never waits for anything but the sleep and
\* the requests, which time out: a step that can be taken is taken.

\* Every source serves the history and nothing fails.
InitHist == Init /\ \A s \in Symbols : kind[s] = "history"
NextHist ==
    \/ BatchFillStart
    \/ BatchFillFetch
    \/ BatchFillDone
    \/ TailSync
    \/ NextSymbol
    \/ Sleep
SpecHist == InitHist /\ [][NextHist]_vars /\ WF_vars(NextHist)

\* Every source serves the history and nothing fails, but the process may
\* be stopped and started again.
NextRestart ==
    \/ NextHist
    \/ Restart
    \/ RestartMidFill
SpecRestart == InitHist /\ [][NextRestart]_vars /\ WF_vars(NextHist)

\* A sweep has ended, at any second of the two minutes from the floor, and
\* the loop sleeps.
InitSleep ==
    /\ clock \in {HistoricalFloor + s * 1000 : s \in 0..MaxSecond}
    /\ kind = [s \in Symbols |-> "history"]
    /\ store = [s \in Symbols |-> SetToBag({<<k, 0>> : k \in {m \in Minutes : HistoricalFloor <= m /\ m <= clock}})]
    /\ pc = "sleep"
    /\ i = 1
    /\ start_ms = 0
    /\ now_ms = 0
    /\ fill_err = "none"
    /\ outcome = [s \in Symbols |-> "ok"]
    /\ new_count = 0
    /\ klines = <<>>
    /\ store0 = {}
    /\ caught_up = FALSE
    /\ restarts = 0
NextSleep == SleepUntilNextMinute
SpecSleep == InitSleep /\ [][NextSleep]_vars

\* Sources answer every gap-fill request, some of them with short batches;
\* nothing fails.
InitShort ==
    /\ store = [s \in Symbols |-> EmptyBag]
    /\ kind \in {k \in [Symbols -> {"history", "short"}] :
                   Cardinality({s \in Symbols : k[s] = "short"}) \in 1..MaxUnreliable}
    /\ clock \in ClockVals
    /\ pc = "pass"
    /\ i = 1
    /\ start_ms = 0
    /\ now_ms = 0
    /\ fill_err = "none"
    /\ outcome = [s \in Symbols |-> "pending"]
    /\ new_count = 0
    /\ klines = <<>>
    /\ store0 = {}
    /\ caught_up = FALSE
    /\ restarts = 0
SpecShort == InitShort /\ [][NextHist]_vars /\ WF_vars(NextHist)

\* Sources serve the history; requests and store operations may fail.
InitFaults == Init /\ \A s \in Symbols : kind[s] # "any"
SpecFaults == InitFaults /\ [][Next]_vars /\ WF_vars(Next)

\* ------------------------------------------------- derived predicates
KeysOf(seq) == {seq[j][1] : j \in 1..Len(seq)}
Rows(s) == DOMAIN store[s]
Contiguous(ks) == \A k \in Minutes : (ks # {} /\ SetMin(ks) <= k /\ k <= SetMax(ks)) => k \in ks
UniqueRows(table) == \A k \in OpenTimes(table) : RowCount(table, k) = 1
HistTable(t) == SetToBag({<<k, 0>> : k \in HistKeys(t)})
PassEnded == pc = "next"
PassOk == pc = "next" /\ outcome[symbol] = "ok"
ClockEnd == SetMax(ClockVals)
Covered(s) ==
    /\ UniqueRows(store[s])
    /\ \A k \in Keys : (HistoricalFloor <= k /\ k <= clock - IntervalMs) => k \in OpenTimes(store[s])
Range(lo, hi) == {k \in Minutes : lo <= k /\ k <= hi}

\* ------------------------------------------------------------- claims

\* C1 (contiguity convergence): from empty stores and a source that serves
\* the history, every sweep ends, and whenever one has ended each store holds
\* every key from the floor to now - 60000, one row per key.
C1_Convergence ==
    /\ [](pc = "sleep" => \A s \in Symbols : Covered(s))
    /\ []<>(pc = "sleep")
C1_Witness ==
    /\ pc = "sleep"
    /\ \A s \in Symbols : Covered(s) /\ Cardinality(OpenTimes(store[s])) >= 4

\* C2 (contiguous between passes): a pass that starts on a contiguous (or
\* empty) store of a symbol whose source serves the history ends on a
\* contiguous store, however the gap fill stopped.
C2_ContiguousAfterPass ==
    (PassEnded /\ Contiguous(store0)) => Contiguous(OpenTimes(store[symbol]))

\* C3 (gap healing): a pass without failure, against a source that serves
\* the history, on a store with a hole leaves every key between the store's
\* former minimum and maximum stored.
C3_GapHealed ==
    (PassOk /\ fill_err = "none" /\ ~Contiguous(store0)) =>
        Range(SetMin(store0), SetMax(store0)) \subseteq OpenTimes(store[symbol])

\* C4 (no-progress termination): the gap-fill loop goes round again only
\* after a batch that advanced the cursor; a batch that did not ends it.
C4_NoProgressStops ==
    [][(pc = "fill" /\ pc' = "fill") => start_ms' > start_ms]_vars

\* C5 (failure isolation): when a sweep ends, every symbol whose source and
\* store work was reconciled in it, and its table is exactly the history up
\* to now - the state it has when no sibling fails - whether or not a
\* sibling before or after it failed.
C5_FailureIsolation ==
    pc = "sleep" =>
        \A a \in Symbols : kind[a] = "history" =>
            /\ outcome[a] = "ok"
            /\ store[a] = HistTable(clock)
C5_Witness ==
    /\ pc = "sleep"
    /\ outcome[SYMBOLS[1]] = "error"
    /\ kind[SYMBOLS[2]] = "history"
    /\ BagCardinality(store[SYMBOLS[2]]) >= 2

\* C6 (idempotent insert): in every reachable table no key has two rows, and
\* for every record, inserting it leaves exactly one row for its key, a
\* second insert of it changes nothing, and an insert of a stored key adds
\* no row.  (A table changes only in its own symbol's pass, so the tables of
\* the current symbol are all the reachable tables.)
C6_IdempotentInsert ==
    /\ UniqueRows(store[symbol])
    /\ \A kline \in Keys \X Payloads :
          LET once == insert_kline(store[symbol], kline) IN
          /\ RowCount(once, kline[1]) = 1
          /\ insert_kline(once, kline) = once
          /\ (kline[1] \in OpenTimes(store[symbol]) => once = store[symbol])
\* The tail phase passed the same record to insert_kline twice.
C6_Witness ==
    /\ PassOk
    /\ Len(klines) = 2
    /\ klines[1] = klines[2]
    /\ new_count = 2
    /\ RowCount(store[symbol], klines[1][1]) = 1

\* C7 (tail additivity): a tail phase that completes leaves the table with
\* its former rows, unchanged, plus one row for each fetched key that was
\* not stored.
C7_TailAdditive ==
    [][(pc = "tail" /\ pc' = "next" /\ outcome'[symbol] = "ok") =>
          /\ OpenTimes(store'[symbol]) = OpenTimes(store[symbol]) \cup KeysOf(klines')
          /\ store[symbol] \sqsubseteq store'[symbol]
          /\ UniqueRows(store'[symbol])]_vars
\* Stored {t, t+60000} and a tail batch {t+60000, t+120000}: one insert.
C7_Witness ==
    /\ PassOk
    /\ Len(klines) = 2
    /\ klines[1][1] \in store0
    /\ klines[1][1] - IntervalMs \in store0
    /\ klines[2][1] = klines[1][1] + IntervalMs
    /\ klines[2][1] \notin store0
    /\ new_count = 1

\* C8 (no update, no delete): no step removes a row or changes a row's
\* payload, whatever the source serves.
C8_NeverUpdated ==
    [][\A s \in Symbols : store[s] \sqsubseteq store'[s]]_vars
\* A stored candle was served again with another payload and passed to
\* insert_kline.
C8_Witness ==
    /\ PassOk
    /\ new_count = Len(klines)
    /\ \E j \in 1..Len(klines) :
          /\ klines[j][1] \in store0
          /\ <<klines[j][1], 1 - klines[j][2]>> \in Rows(symbol)

\* C9 (no error ends the loop): whatever requests and store operations fail,
\* a sweep ends only when every symbol has been attempted, and the loop keeps
\* sweeping and sleeping until the end of the modelled time line.
C9_LoopSurvivesErrors ==
    /\ [](pc = "sleep" => \A s \in Symbols : outcome[s] \in {"ok", "error"})
    /\ <>[](pc = "sleep" /\ clock = ClockEnd)
\* The last pass of a sweep failed after it had stored something, and the
\* loop went on to the sleep with a next sweep still to come.
C9_Witness ==
    /\ pc = "sleep"
    /\ outcome[SYMBOLS[Len(SYMBOLS)]] = "error"
    /\ store[SYMBOLS[Len(SYMBOLS)]] # EmptyBag
    /\ clock < ClockEnd

\* C10 (storage error ends the pass): once the gap fill of a pass hit a
\* storage error, no step of the tail phase is taken in that pass.
C10_StorageErrorEndsPass ==
    [][fill_err = "storage" => ~(pc = "tail" /\ pc' = "next")]_vars

\* C11 (termination under short batches): against a source that answers each
\* request with nothing or with 1..limit ascending candles at or after the
\* requested start, every iteration that gets a batch moves the cursor
\* forward, and the gap-fill loop ends.
C11_ShortBatchTermination ==
    /\ [][(pc = "fill" /\ pc' = "fill" /\ kind[symbol] = "short") => start_ms' > start_ms]_vars
    /\ (pc = "fill") ~> (pc = "tail")
\* Two candles were asked for from the floor, one came back, and the loop
\* goes on from the candle after it.
C11_Witness ==
    /\ pc = "fill"
    /\ kind[symbol] = "short"
    /\ store0 = {}
    /\ OpenTimes(store[symbol]) = {HistoricalFloor}
    /\ start_ms = HistoricalFloor + IntervalMs
    /\ start_ms + IntervalMs <= now_ms

\* C14 (empty batch means caught up): the step of the gap fill that receives
\* an empty batch writes nothing, records no error, and hands over to the
\* tail phase; no gap-fill request follows it in that pass.
C14_EmptyBatchCaughtUp ==
    /\ [][(~caught_up /\ caught_up') =>
             /\ pc = "fill"
             /\ pc' = "tail"
             /\ store' = store
             /\ fill_err' = "none"
             /\ outcome'[symbol] = "running"]_vars
    /\ [](caught_up => pc \in {"tail", "next"})
    /\ [][(caught_up /\ pc = "tail") => pc' = "next"]_vars
\* A pass whose gap fill stopped on an empty batch completed its tail phase,
\* which stored a candle the gap fill had not been given.
C14_Witness ==
    /\ PassOk
    /\ caught_up
    /\ new_count > 0
    /\ fill_err = "none"

\* C15 (resumption after partial progress): every pass takes its starting
\* cursor from the store as it is then, and wherever the process was stopped
\* and started again - between symbols, or after some of a batch's inserts -
\* a sweep that ends leaves every store exactly as a run without stops
\* does: the history up to now, one row per key.
C15_Resumption ==
    /\ [](pc = "sleep" => \A s \in Symbols : store[s] = HistTable(clock))
    /\ [][(pc = "pass" /\ pc' = "fill") => start_ms' = StartCursor(store[symbol])]_vars
\* The process was stopped and started again as often as the model allows,
\* and a sweep after it has ended on stores of several candles.
C15_Witness ==
    /\ pc = "sleep"
    /\ restarts = MaxRestarts
    /\ \A s \in Symbols : store[s] = HistTable(clock) /\ BagCardinality(store[s]) >= 3

\* C16 (phase ordering): the tail phase reads the recent keys after the gap
\* fill's writes, so a fetched candle whose key the gap fill of this pass
\* stored, and which is among the N_MINUTES most recent stored keys, is never
\* passed to insert_kline (nor counted) by the tail phase.
InsertedByFill == OpenTimes(store[symbol]) \ store0
C16_FillBeforeTailRead ==
    [][(pc = "tail" /\ pc' = "next" /\ outcome'[symbol] = "ok") =>
          LET seen == InsertedByFill \cap RecentOf(OpenTimes(store[symbol]), N_MINUTES)
          IN new_count' <= Len(SelectSeq(klines', LAMBDA kline : kline[1] \notin seen))]_vars
\* The gap fill stored several candles and the tail batch brought the most
\* recent of them again: none was inserted a second time.
C16_Witness ==
    /\ PassOk
    /\ new_count = 0
    /\ Len(klines) = N_MINUTES
    /\ \A j \in 1..Len(klines) : klines[j][1] \in OpenTimes(store[symbol]) \ store0

\* C17 (sweep shape): the passes of a sweep run one at a time in the order
\* of SYMBOLS: the symbols before the current one have had their pass, those
\* after it have not, a pass starts only for a symbol that has had none in
\* this sweep, and the sleep begins only when every symbol has had one.
Position(s) == CHOOSE j \in 1..Len(SYMBOLS) : SYMBOLS[j] = s
C17_SweepShape ==
    /\ [](\A s \in Symbols :
            /\ (pc # "sleep" /\ Position(s) < i) => outcome[s] \in {"ok", "error"}
            /\ (pc # "sleep" /\ Position(s) > i) => outcome[s] = "pending"
            /\ outcome[s] = "running" => (s = symbol /\ pc \in {"fill", "tail"})
            /\ (pc = "pass" /\ s = symbol) => outcome[s] = "pending"
            /\ (pc = "next" /\ s = symbol) => outcome[s] \in {"ok", "error"}
            /\ pc = "sleep" => outcome[s] \in {"ok", "error"})
    /\ [][\A s \in Symbols :
            /\ (outcome[s] = "pending" /\ outcome'[s] # "pending") => (s = symbol /\ pc = "pass")
            /\ (outcome[s] \in {"ok", "error"} /\ outcome'[s] # outcome[s]) => pc = "sleep"]_vars
\* A sweep has ended with every symbol reconciled, one of them against a
\* source that may fail.
C17_Witness ==
    /\ pc = "sleep"
    /\ \A s \in Symbols : outcome[s] = "ok" /\ BagCardinality(store[s]) >= 2
    /\ \E s \in Symbols : kind[s] = "flaky"

\* C18 (symbol independence): no step of a pass changes the store of a
\* symbol other than the one the pass is for, whatever the source answers
\* and whether or not the pass fails.
C18_SymbolIndependence ==
    [][\A s \in Symbols : s # symbol => store'[s] = store[s]]_vars
\* The second symbol's pass, against a source that answers anything, stored
\* candles and failed, and the first symbol's table is what its own pass
\* left.
C18_Witness ==
    /\ pc = "next"
    /\ i = 2
    /\ kind[symbol] = "any"
    /\ outcome[symbol] = "error"
    /\ OpenTimes(store[symbol]) \ store0 # {}
    /\ store[SYMBOLS[1]] = HistTable(clock)
    /\ BagCardinality(store[SYMBOLS[1]]) >= 2
    /\ store[SYMBOLS[1]] # store[symbol]

\* C19 (inserted count): when a pass has completed, new_count is the number
\* of rows the pass added to the symbol's table, gap fill and tail phase
\* together.
C19_InsertedCount ==
    PassOk => new_count = Cardinality(Rows(symbol)) - Cardinality(store0)

\* C19, the tail phase alone: new_count is at most the number of rows the
\* pass added (it is violated as well: a key stored outside the recent-key
\* window, or served twice, is counted and not inserted).
C19_TailCountAtMostAdded ==
    PassOk => new_count <= Cardinality(Rows(symbol)) - Cardinality(store0)

\* C20 (tick alignment with a sleep floor): whatever the second at which a
\* sweep ends, the sleep lasts from 2 to 60 seconds and the next sweep
\* starts on a whole minute.
C20_SleepAligned ==
    [][(pc = "sleep" /\ pc' = "pass") =>
          /\ clock' - clock \in (2 * 1000)..(60 * 1000)
          /\ clock' % IntervalMs = 0]_vars

\* C12 (starting cursor): the first start time a pass asks for is the largest
\* stored key + 60000 whenever the store holds a record, the key 0 included,
\* and the historical floor exactly when the store is empty.
C12_StartingCursor ==
    [][(pc = "pass" /\ pc' = "fill") =>
          start_ms' = IF OpenTimes(store[symbol]) = {}
                      THEN HistoricalFloor
                      ELSE SetMax(OpenTimes(store[symbol])) + IntervalMs]_vars

\* C13 (batch limit): in every iteration of the gap-fill loop the limit sent
\* is min(N_MINUTES, ceil((now - cursor) / 60000)), and lies in 1..N_MINUTES.
CeilDiv(a, b) == (a + b - 1) \div b
C13_BatchLimit ==
    (pc = "fill" /\ start_ms < now_ms) =>
        /\ BatchLimit(now_ms, start_ms) = Min(N_MINUTES, CeilDiv(now_ms - start_ms, IntervalMs))
        /\ BatchLimit(now_ms, start_ms) \in 1..N_MINUTES

====
